---- MODULE Spec2Model ----
(***************************************************************************)
(* We-ather: the weather proxy (services/weather: getWeatherData and       *)
(* makeRequest) and the Express router with its session guard (auth).      *)
(*                                                                         *)
(* JavaScript values are tagged records; a JavaScript string is a sequence *)
(* of tokens, each token one character or one atomic chunk ("https://").   *)
(***************************************************************************)
EXTENDS Integers, Sequences, FiniteSets, TLC

\* ------------------------------------------------------------------ bounds
\* Number of request contexts the server holds.
NReq == 2
\* Redirects the upstream answers to one makeRequest call (the code has no cap).
MaxHops == 2
\* Longest upstream error body.
MaxBodyLen == 202

Reqs == 1..NReq
\* Browser sessions (cookie jars).
NSessions == 2
Sessions == 1..NSessions

\* ------------------------------------------------------- JavaScript values
Undefined == [t |-> "undefined"]
Null == [t |-> "null"]
Str(s) == [t |-> "string", s |-> s]
Num(n) == [t |-> "number", n |-> n]
Arr(a) == [t |-> "array", a |-> a]
Obj(f) == [t |-> "object", f |-> f]
EmptyObj == Obj(<<>>)

IsNullish(v) == v.t \in {"undefined", "null"}

\* ToBoolean: undefined, null, '' and 0 are falsy.
Truthy(v) ==
  CASE v.t \in {"undefined", "null"} -> FALSE
    [] v.t = "string" -> v.s # <<>>
    [] v.t = "number" -> v.n # 0
    [] OTHER -> TRUE

\* v.k on a value that is not nullish (a nullish v throws a TypeError, which the
\* callers decide with IsNullish).
Get(v, k) ==
  IF v.t = "object" /\ k \in DOMAIN v.f THEN v.f[k] ELSE Undefined

\* v?.k
OptGet(v, k) == IF IsNullish(v) THEN Undefined ELSE Get(v, k)

\* Mutant of OptIndex0: the last element instead of the first.
OptIndexLast(v) ==
  CASE IsNullish(v) -> Undefined
    [] v.t = "array" -> IF Len(v.a) > 0 THEN v.a[Len(v.a)] ELSE Undefined
    [] OTHER -> Undefined

\* v?.[0]
OptIndex0(v) ==
  CASE IsNullish(v) -> Undefined
    [] v.t = "array" -> IF Len(v.a) > 0 THEN v.a[1] ELSE Undefined
    [] v.t = "string" -> IF Len(v.s) > 0 THEN Str(<<v.s[1]>>) ELSE Undefined
    [] OTHER -> Undefined

\* a || b
Or(a, b) == IF Truthy(a) THEN a ELSE b

\* ------------------------------------------------------------------ strings
IsSpace(c) == c = " "

RECURSIVE TrimStart(_)
TrimStart(s) ==
  IF s # <<>> /\ IsSpace(Head(s)) THEN TrimStart(Tail(s)) ELSE s

RECURSIVE TrimEnd(_)
TrimEnd(s) ==
  IF s # <<>> /\ IsSpace(s[Len(s)]) THEN TrimEnd(SubSeq(s, 1, Len(s) - 1)) ELSE s

\* String.prototype.trim
Trim(s) == TrimEnd(TrimStart(s))

\* String.prototype.startsWith, for a prefix that is one token.
StartsWith(s, tok) == s # <<>> /\ Head(s) = tok

Min(a, b) == IF a < b THEN a ELSE b
Max(a, b) == IF a > b THEN a ELSE b

\* String.prototype.substring(a, b): both ends clamped to [0, length].
Substring(s, a, b) ==
  LET lo == Min(Max(a, 0), Len(s))
      hi == Min(Max(b, 0), Len(s))
  IN SubSeq(s, Min(lo, hi) + 1, Max(lo, hi))

\* String(v) for the values that reach makeRequest.
StringOf(v) ==
  CASE v.t = "string" -> v.s
    [] v.t = "number" -> <<"#">>
    [] OTHER -> <<v.t>>

\* ------------------------------------------------------------------- errors
\* new Error(message): the message keeps the parts a template interpolates.
Message(text, status, excerpt, arg) ==
  [text |-> text, status |-> status, excerpt |-> excerpt, arg |-> arg]
Error(text) == [message |-> Message(text, 0, <<>>, <<>>)]
NoError == [message |-> Message("", 0, <<>>, <<>>)]

UrlRequired == "URL is required"
UrlEmpty == "URL is empty after trimming"
InvalidUrl == "Invalid URL"
HttpError == "HTTP"
ParseError == "Failed to parse response"
TransportError == "ECONNRESET"
InvalidPoints == "Invalid response from points API"
NoForecastUrl == "Unable to get forecast URL from points API"
NoHourlyUrl == "Unable to get hourly forecast URL from points API"
ForecastUrlMissing == "Forecast URL is missing"
HourlyUrlMissing == "Hourly forecast URL is missing"
TypeErrorText == "TypeError"

\* What a promise settles with.
Resolved(v) == [ok |-> TRUE, value |-> v, error |-> NoError]
Rejected(e) == [ok |-> FALSE, value |-> Undefined, error |-> e]

\* -------------------------------------------------------------- makeRequest
BaseUrl == <<"https://", "api.weather.gov">>

HasScheme(s) == StartsWith(s, "http://") \/ StartsWith(s, "https://")

\* Mutant of FullUrl: the separating slash is added whether or not the input
\* brings its own.
FullUrlAlwaysSlash(trimmedUrl) ==
  IF ~HasScheme(trimmedUrl)
  THEN BaseUrl \o <<"/">> \o trimmedUrl
  ELSE trimmedUrl

\* The URL makeRequest hands to new URL().
FullUrl(trimmedUrl) ==
  IF ~HasScheme(trimmedUrl)
  THEN BaseUrl \o (IF StartsWith(trimmedUrl, "/") THEN <<>> ELSE <<"/">>) \o trimmedUrl
  ELSE trimmedUrl

\* new URL(fullUrl) accepts a scheme followed by a host; the host is one token.
UrlParses(fullUrl) ==
  /\ Len(fullUrl) >= 2
  /\ HasScheme(fullUrl)
  /\ fullUrl[2] \notin {"/", " ", "http://", "https://"}

\* options of https.request: the host and the path of the parsed URL.
RequestOptions(fullUrl) ==
  [hostname |-> fullUrl[2],
   path |-> IF Len(fullUrl) > 2 THEN SubSeq(fullUrl, 3, Len(fullUrl)) ELSE <<"/">>]

NoGet == [hostname |-> "", path |-> <<>>]

\* Mutant of makeRequest: the test of the trimmed URL is missing.
makeRequestNoTrimCheck(urlString) ==
  IF ~Truthy(urlString)
  THEN [issue |-> FALSE, get |-> NoGet, error |-> Error(UrlRequired)]
  ELSE LET fullUrl == FullUrl(Trim(StringOf(urlString)))
       IN IF ~UrlParses(fullUrl)
          THEN [issue |-> FALSE, get |-> NoGet,
                error |-> [message |-> Message(InvalidUrl, 0, <<>>, StringOf(urlString))]]
          ELSE [issue |-> TRUE, get |-> RequestOptions(fullUrl), error |-> NoError]

\* The synchronous part of makeRequest(urlString): it rejects before any
\* network activity, or issues one GET.
makeRequest(urlString) ==
  IF ~Truthy(urlString)
  THEN [issue |-> FALSE, get |-> NoGet, error |-> Error(UrlRequired)]
  ELSE LET trimmedUrl == Trim(StringOf(urlString))
           fullUrl == FullUrl(trimmedUrl)
       IN IF trimmedUrl = <<>>
          THEN [issue |-> FALSE, get |-> NoGet, error |-> Error(UrlEmpty)]
          ELSE IF ~UrlParses(fullUrl)
          THEN [issue |-> FALSE, get |-> NoGet,
                error |-> [message |-> Message(InvalidUrl, 0, <<>>, StringOf(urlString))]]
          ELSE [issue |-> TRUE, get |-> RequestOptions(fullUrl), error |-> NoError]

\* Length of the body excerpt an HTTP error carries.
ExcerptLen == 200

\* Mutant of IsRedirect: redirects are not followed.
IsRedirectNever(res) == FALSE

\* The redirect test of the https.request callback.
IsRedirect(res) ==
  res.statusCode >= 300 /\ res.statusCode < 400 /\ Truthy(res.location)

\* Mutant of onEnd: the error carries the whole body.
onEndNoTruncate(res) ==
  IF res.statusCode = 200
  THEN IF res.body.valid
       THEN Resolved(res.body.json)
       ELSE Rejected(Error(ParseError))
  ELSE Rejected([message |-> Message(HttpError, res.statusCode, res.body.text, <<>>)])

\* The 'end' handler: what the promise settles with once the body is read.
onEnd(res) ==
  IF res.statusCode = 200
  THEN IF res.body.valid
       THEN Resolved(res.body.json)
       ELSE Rejected(Error(ParseError))
  ELSE Rejected([message |->
         Message(HttpError, res.statusCode, Substring(res.body.text, 0, ExcerptLen), <<>>)])

\* ----------------------------------------------------------- getWeatherData
\* What the pipeline does next: awaits the GET of a stage, returns a snapshot
\* or throws.
Await(stage, get, h) ==
  [next |-> "await", stage |-> stage, get |-> get, held |-> h,
   value |-> Undefined, error |-> NoError]
Return(v, h) ==
  [next |-> "return", stage |-> "done", get |-> NoGet, held |-> h,
   value |-> v, error |-> NoError]
Throw(e, h) ==
  [next |-> "throw", stage |-> "done", get |-> NoGet, held |-> h,
   value |-> Undefined, error |-> e]

\* await makeRequest(url): a rejection is thrown at the await.
Call(stage, url, h) ==
  LET m == makeRequest(url)
  IN IF m.issue THEN Await(stage, m.get, h) ELSE Throw(m.error, h)

\* A local that is not assigned yet.
Unset == [t |-> "unset"]
NoData == [pointsData |-> Unset, forecastData |-> Unset, hourlyData |-> Unset]

\* `https://api.weather.gov/points/${lat},${lon}`
PointsUrl(lat, lon) ==
  Str(<<"https://", "api.weather.gov", "/", "points", "/", lat, ",", lon>>)

\* Step 1: the call of getWeatherData up to its first await.
getWeatherData(lat, lon) == Call("points", PointsUrl(lat, lon), NoData)

\* Mutant of afterPoints: the test of `properties` is missing.
afterPointsNoShapeCheck(pointsData) ==
  LET h == [NoData EXCEPT !.pointsData = pointsData]
      properties == Get(pointsData, "properties")
      forecast == Get(properties, "forecast")
      forecastHourly == Get(properties, "forecastHourly")
  IN IF ~Truthy(forecast) THEN Throw(Error(NoForecastUrl), h)
     ELSE IF ~Truthy(forecastHourly) THEN Throw(Error(NoHourlyUrl), h)
     ELSE IF forecast.t # "string" THEN Throw(Error(TypeErrorText), h)
     ELSE IF Trim(forecast.s) = <<>> THEN Throw(Error(ForecastUrlMissing), h)
     ELSE Call("forecast", Str(Trim(forecast.s)), h)

\* Mutant of afterPoints: the hourly URL is only tested where it is used.
afterPointsNoHourlyCheck(pointsData) ==
  LET h == [NoData EXCEPT !.pointsData = pointsData]
      properties == Get(pointsData, "properties")
      forecast == Get(properties, "forecast")
  IN IF ~Truthy(pointsData) \/ ~Truthy(properties) THEN Throw(Error(InvalidPoints), h)
     ELSE IF ~Truthy(forecast) THEN Throw(Error(NoForecastUrl), h)
     ELSE IF forecast.t # "string" THEN Throw(Error(TypeErrorText), h)
     ELSE IF Trim(forecast.s) = <<>> THEN Throw(Error(ForecastUrlMissing), h)
     ELSE Call("forecast", Str(Trim(forecast.s)), h)

\* Step 1 validated and step 2 started: from the points response to the await
\* of the forecast request.
afterPoints(pointsData) ==
  LET h == [NoData EXCEPT !.pointsData = pointsData]
      properties == Get(pointsData, "properties")
      forecast == Get(properties, "forecast")
      forecastHourly == Get(properties, "forecastHourly")
  IN IF ~Truthy(pointsData) \/ ~Truthy(properties) THEN Throw(Error(InvalidPoints), h)
     ELSE IF ~Truthy(forecast) THEN Throw(Error(NoForecastUrl), h)
     ELSE IF ~Truthy(forecastHourly) THEN Throw(Error(NoHourlyUrl), h)
     ELSE IF forecast.t # "string" THEN Throw(Error(TypeErrorText), h)
     ELSE IF Trim(forecast.s) = <<>> THEN Throw(Error(ForecastUrlMissing), h)
     ELSE Call("forecast", Str(Trim(forecast.s)), h)

\* Step 3 started: from the forecast response to the await of the hourly request.
afterForecast(held0, forecastData) ==
  LET h == [held0 EXCEPT !.forecastData = forecastData]
      forecastHourly == Get(Get(held0.pointsData, "properties"), "forecastHourly")
  IN IF forecastHourly.t # "string" THEN Throw(Error(TypeErrorText), h)
     ELSE IF Trim(forecastHourly.s) = <<>> THEN Throw(Error(HourlyUrlMissing), h)
     ELSE Call("hourly", Str(Trim(forecastHourly.s)), h)

UnknownLocation ==
  Obj([city |-> Str(<<"Unknown">>), state |-> Str(<<"Unknown">>)])

\* The returned object literal; reading a property of null throws a TypeError.
afterHourly(held0, hourlyData) ==
  LET h == [held0 EXCEPT !.hourlyData = hourlyData]
      properties == Get(h.pointsData, "properties")
  IN IF IsNullish(hourlyData) \/ IsNullish(h.forecastData)
     THEN Throw(Error(TypeErrorText), h)
     ELSE Return(
       Obj([location |->
              Or(OptGet(Get(properties, "relativeLocation"), "properties"), UnknownLocation),
            current |->
              Or(OptIndex0(OptGet(Get(hourlyData, "properties"), "periods")), Null),
            forecast |->
              Or(OptGet(Get(h.forecastData, "properties"), "periods"), Arr(<<>>)),
            units |->
              Or(OptGet(Get(h.forecastData, "properties"), "units"), EmptyObj)]),
       h)

\* Mutant of resume: a failed forecast or hourly request degrades to an empty
\* payload instead of aborting.
resumeDegrade(stage, held0, settled) ==
  CASE stage = "points" ->
         IF settled.ok THEN afterPoints(settled.value) ELSE Throw(settled.error, held0)
    [] stage = "forecast" ->
         afterForecast(held0, IF settled.ok THEN settled.value ELSE EmptyObj)
    [] OTHER ->
         afterHourly(held0, IF settled.ok THEN settled.value ELSE EmptyObj)

\* The continuation of getWeatherData when the request it awaits settles; the
\* catch block rethrows the error it caught.
resume(stage, held0, settled) ==
  IF ~settled.ok THEN Throw(settled.error, held0)
  ELSE CASE stage = "points" -> afterPoints(settled.value)
         [] stage = "forecast" -> afterForecast(held0, settled.value)
         [] OTHER -> afterHourly(held0, settled.value)

\* ------------------------------------------------------------------- router
\* The routes registered with the auth guard, and some registered without it.
PageRoutes == {"GET /home", "GET /posts", "GET /profile"}
ApiRoutes ==
  {"GET /api/weather", "GET /api/locations", "POST /api/posts", "GET /api/posts",
   "DELETE /api/posts/:id", "GET /api/saved-locations", "POST /api/saved-locations",
   "DELETE /api/saved-locations", "GET /api/verify-table"}
GuardedRoutes == PageRoutes \cup ApiRoutes
OpenRoutes == {"GET /welcome", "POST /register"}
Routes == GuardedRoutes \cup OpenRoutes

\* Mutant of Chain: the upload runs before the guard.
ChainUploadFirst(route) ==
  CASE route = "POST /api/posts" -> <<"upload", "auth", "handler">>
    [] route \in GuardedRoutes -> <<"auth", "handler">>
    [] OTHER -> <<"handler">>

\* The middleware chain app.get/app.post/app.delete registers for a route.
Chain(route) ==
  CASE route = "POST /api/posts" -> <<"auth", "upload", "handler">>
    [] route \in GuardedRoutes -> <<"auth", "handler">>
    [] OTHER -> <<"handler">>

\* What a middleware of a route touches when it runs (the GETs of the weather
\* route are in gets).
Effects(route, mw) ==
  CASE mw = "auth" -> {}
    [] mw = "upload" -> {"fileWrite"}
    [] route \in {"GET /home", "GET /profile", "GET /api/locations", "GET /api/posts",
                  "GET /api/saved-locations", "GET /api/verify-table"} -> {"dbRead"}
    [] route \in {"POST /api/posts", "POST /api/saved-locations",
                  "DELETE /api/saved-locations", "POST /register"} -> {"dbWrite"}
    [] route = "DELETE /api/posts/:id" -> {"dbRead", "dbWrite", "fileWrite"}
    [] OTHER -> {}

NoUser == 0
Users == {1}

\* const auth = (req, res, next) => ...: whether next() is called.
auth(sessionUser) == sessionUser # NoUser

\* Express runs the chain in order; a middleware that does not call next()
\* ends it. The middleware that ran, in order.
RECURSIVE RunChain(_, _)
RunChain(chain, sessionUser) ==
  IF chain = <<>> THEN <<>>
  ELSE IF Head(chain) = "auth" /\ ~auth(sessionUser) THEN <<"auth">>
  ELSE <<Head(chain)>> \o RunChain(Tail(chain), sessionUser)

Reply(status, redirect, error, message, data) ==
  [status |-> status, redirect |-> redirect, error |-> error,
   message |-> message, data |-> data]
NoReply == Reply(0, "", "", NoError.message, Undefined)

\* res.redirect('/login')
LoginRedirect == Reply(302, "/login", "", NoError.message, Undefined)

\* parseFloat of a query string: the text of the number it yields.
parseFloat(v) ==
  IF v.t = "string" /\ Len(v.s) = 1 /\ v.s[1] \in {"95", "200", "40.0066", "-105.2633"}
  THEN v.s[1]
  ELSE "NaN"

\* Mutant of weatherHandler: the 400 needs both parameters to be missing.
weatherHandlerBothMissing(query) ==
  IF ~Truthy(query.lat) /\ ~Truthy(query.lon)
  THEN [started |-> FALSE, step |-> Throw(NoError, NoData),
        reply |-> Reply(400, "", "Latitude and longitude are required",
                        NoError.message, Undefined)]
  ELSE [started |-> TRUE,
        step |-> getWeatherData(parseFloat(query.lat), parseFloat(query.lon)),
        reply |-> NoReply]

\* GET /api/weather up to its first await: the 400 of a missing parameter, or
\* the call of getWeatherData.
weatherHandler(query) ==
  IF ~Truthy(query.lat) \/ ~Truthy(query.lon)
  THEN [started |-> FALSE, step |-> Throw(NoError, NoData),
        reply |-> Reply(400, "", "Latitude and longitude are required",
                        NoError.message, Undefined)]
  ELSE [started |-> TRUE,
        step |-> getWeatherData(parseFloat(query.lat), parseFloat(query.lon)),
        reply |-> NoReply]

\* Mutant of weatherReply: the 500 hides the error's message.
weatherReplyGeneric(step) ==
  IF step.next = "return"
  THEN Reply(200, "", "", NoError.message, step.value)
  ELSE Reply(500, "", "Failed to fetch weather data", NoError.message, Undefined)

\* The end of GET /api/weather: res.json(weatherData), or the catch block's 500
\* with the error's message.
weatherReply(step) ==
  IF step.next = "return"
  THEN Reply(200, "", "", NoError.message, step.value)
  ELSE Reply(500, "", "Failed to fetch weather data", step.error.message, Undefined)

\* ----------------------------------------------------------------- upstream
\* A response body: its text, and what JSON.parse makes of it (valid: whether
\* it parses). The characters of a body are numbered by their position: a
\* body of n characters is 1, 2, ..., n; the JSON bodies are two characters.
TextBody(n) == [valid |-> FALSE, json |-> Undefined, text |-> [i \in 1..n |-> i]]
JsonBody(v) == [valid |-> TRUE, json |-> v, text |-> <<1, 2>>]

BodyLens == {0, ExcerptLen - 1, ExcerptLen, ExcerptLen + 1, MaxBodyLen}

ForecastUrl == <<" ", "https://", "api.weather.gov", "/", "forecast">>
HourlyUrl == <<"https://", "api.weather.gov", "/", "hourly", " ">>
Boulder == Obj([properties |-> Obj([city |-> Str(<<"Boulder">>), state |-> Str(<<"CO">>)])])

Period(n) == Obj([number |-> Num(n)])
Units == Obj([temperature |-> Str(<<"F">>)])

\* Decoded bodies the upstream may answer each stage with.
PointsValues ==
  {Null, Num(5), EmptyObj} \cup
  {Obj([properties |-> Obj([forecast |-> f, forecastHourly |-> h, relativeLocation |-> l])]) :
     f \in {Undefined, Str(<<>>), Str(<<" ">>), Num(7), Str(ForecastUrl)},
     h \in {Undefined, Str(<<>>), Str(<<" ">>), Num(7), Str(HourlyUrl)},
     l \in {Undefined, Boulder}}
ForecastValues ==
  {Null, EmptyObj} \cup
  {Obj([properties |-> Obj([periods |-> p, units |-> u])]) :
     p \in {Undefined, Arr(<<>>), Arr(<<Period(1), Period(2)>>)},
     u \in {Undefined, Units}}
HourlyValues ==
  {Null, EmptyObj} \cup
  {Obj([properties |-> Obj([periods |-> p])]) :
     p \in {Undefined, Arr(<<>>), Arr(<<Period(3), Period(4)>>)}}

ValuesOf(stage) ==
  CASE stage = "points" -> PointsValues
    [] stage = "forecast" -> ForecastValues
    [] stage = "hourly" -> HourlyValues
    [] OTHER -> {Null, EmptyObj}

Bodies(stage) ==
  {JsonBody(v) : v \in ValuesOf(stage)} \cup {TextBody(n) : n \in BodyLens}

Statuses == {200, 301, 404, 500}
\* The Location header: absent, a relative target, a target new URL() rejects.
Locations == {Undefined, Str(<<"/", "moved">>), Str(<<"https://">>)}

Responses(stage) ==
  [statusCode : Statuses, location : Locations, body : Bodies(stage)]

\* -------------------------------------------------------------------- state
VARIABLES
  req,      \* req[r]: the inbound request: its route, session principal, query
            \* (a direct call of makeRequest: its argument, url)
  pc,       \* pc[r]: "idle", the stage whose GET r awaits, or "done"
  ran,      \* ran[r]: the middleware that ran for r, in order
  fx,       \* fx[r]: what the middleware that ran touched
  gets,     \* gets[r]: the outbound GETs issued for r, in order
  resLog,   \* resLog[r]: the upstream responses received, the i-th answering the
            \* i-th GET: the status, the Location header and body length of a
            \* response other than 200, what the body of a 200 decodes to,
            \* whether the body was read to its end
  held,     \* held[r]: the decoded responses getWeatherData holds
  outcome,  \* outcome[r]: what getWeatherData (or makeRequest) settled with
  reply,    \* reply[r]: the response sent to the client
  users,    \* the users table: rows in order of insertion
  session,  \* session[s]: the id of req.session.user of browser session s, or
            \* NoUser
  posts,    \* the posts table: a set of rows
  serial,   \* the last value of the posts id sequence
  files,    \* the names of the files in the uploads directory
  uploaded, \* how many files multer has stored so far
  saved,    \* the user_saved_locations table: rows in order of insertion
  last      \* the last exchange on an account, post or saved-location route:
            \* the request, what failed underneath, and the answer

weatherVars == <<req, pc, ran, fx, gets, resLog, held, outcome, reply>>
storeVars == <<users, session, posts, serial, files, uploaded, saved, last>>
vars == <<req, pc, ran, fx, gets, resLog, held, outcome, reply,
          users, session, posts, serial, files, uploaded, saved, last>>

NoQuery == [lat |-> Undefined, lon |-> Undefined]
NoRequest == [route |-> "", user |-> NoUser, query |-> NoQuery, url |-> Undefined]
Pending == [settled |-> FALSE, ok |-> FALSE, value |-> Undefined, error |-> NoError]
Settled(s) == [settled |-> TRUE, ok |-> s.ok, value |-> s.value, error |-> s.error]

Stages == {"points", "forecast", "hourly", "direct"}

\* res.status(..).json(..), res.render(..) or res.redirect(..): the status
\* sent, the Location of a redirect, the error or message text of the body.
Answer(status, redirect, text) == [status |-> status, redirect |-> redirect, text |-> text]
\* No response is ever sent.
NoAnswer == Answer(0, "", "")

NoBody == [username |-> Undefined, password |-> Undefined, id |-> 0,
           content |-> Undefined, image |-> "none", location_text |-> Undefined]
NoExchange ==
  [tick |-> FALSE, route |-> "", session |-> 0, body |-> NoBody,
   dbFail |-> 0, fsOk |-> TRUE, answer |-> NoAnswer]

\* The database after ensureSchema on a new database, no browser session
\* signed in, an empty uploads directory.
InitStore ==
  /\ users = <<>>
  /\ session = [s \in Sessions |-> NoUser]
  /\ posts = {}
  /\ serial = 0
  /\ files = {}
  /\ uploaded = 0
  /\ saved = <<>>
  /\ last = NoExchange

InitWeather ==
  /\ req = [r \in Reqs |-> NoRequest]
  /\ pc = [r \in Reqs |-> "idle"]
  /\ ran = [r \in Reqs |-> <<>>]
  /\ fx = [r \in Reqs |-> {}]
  /\ gets = [r \in Reqs |-> <<>>]
  /\ resLog = [r \in Reqs |-> <<>>]
  /\ held = [r \in Reqs |-> NoData]
  /\ outcome = [r \in Reqs |-> Pending]
  /\ reply = [r \in Reqs |-> NoReply]

Init == InitWeather /\ InitStore

\* Redirects followed so far by the call r awaits.
Hops(r) == Cardinality({i \in DOMAIN gets[r] : gets[r][i].stage = pc[r]}) - 1

\* Mutant of Advance: the GET of a stage is sent twice.
AdvanceTwice(r, step) ==
  /\ pc' = [pc EXCEPT ![r] = step.stage]
  /\ held' = [held EXCEPT ![r] = step.held]
  /\ gets' = IF step.next = "await"
             THEN [gets EXCEPT ![r] = @ \o << [stage |-> step.stage, get |-> step.get],
                                              [stage |-> step.stage, get |-> step.get] >>]
             ELSE gets
  /\ outcome' = IF step.next = "await" THEN outcome
                ELSE [outcome EXCEPT ![r] =
                        Settled(IF step.next = "return" THEN Resolved(step.value)
                                ELSE Rejected(step.error))]
  /\ reply' = IF step.next = "await" THEN reply
              ELSE [reply EXCEPT ![r] = weatherReply(step)]

\* getWeatherData moves on: to the await of its next GET, or to its end and
\* the route's reply.
Advance(r, step) ==
  /\ pc' = [pc EXCEPT ![r] = step.stage]
  /\ held' = [held EXCEPT ![r] = step.held]
  /\ gets' = IF step.next = "await"
             THEN [gets EXCEPT ![r] = Append(@, [stage |-> step.stage, get |-> step.get])]
             ELSE gets
  /\ outcome' = IF step.next = "await" THEN outcome
                ELSE [outcome EXCEPT ![r] =
                        Settled(IF step.next = "return" THEN Resolved(step.value)
                                ELSE Rejected(step.error))]
  /\ reply' = IF step.next = "await" THEN reply
              ELSE [reply EXCEPT ![r] = weatherReply(step)]

\* Mutant of Settle: the decoded responses are kept in one place for all
\* resolutions.
SettleShared(r, settled) ==
  IF pc[r] = "direct"
  THEN /\ pc' = [pc EXCEPT ![r] = "done"]
       /\ outcome' = [outcome EXCEPT ![r] = Settled(settled)]
       /\ UNCHANGED <<held, gets, reply>>
  ELSE Advance(r, resume(pc[r], held[1], settled))

\* The promise of the makeRequest call r awaits settles.
Settle(r, settled) ==
  IF pc[r] = "direct"
  THEN /\ pc' = [pc EXCEPT ![r] = "done"]
       /\ outcome' = [outcome EXCEPT ![r] = Settled(settled)]
       /\ UNCHANGED <<held, gets, reply>>
  ELSE Advance(r, resume(pc[r], held[r], settled))

\* ------------------------------------------------------------------ actions
\* Query strings a client sends as lat and lon.
LatValues == {Undefined, Str(<<>>), Str(<<"abc">>), Str(<<"95">>), Str(<<"40.0066">>)}
LonValues == {Undefined, Str(<<>>), Str(<<"-105.2633">>)}

\* Express dispatches a request: the route's chain runs up to the first await.
\* The CRUD handlers are summarised by what they touch.
Dispatch(r, route, user, query) ==
  LET done == RunChain(Chain(route), user)
      w == weatherHandler(query)
  IN /\ pc[r] = "idle"
     /\ req' = [req EXCEPT ![r] =
               [route |-> route, user |-> user, query |-> query, url |-> Undefined]]
     /\ ran' = [ran EXCEPT ![r] = done]
     /\ fx' = [fx EXCEPT ![r] = UNION {Effects(route, done[i]) : i \in DOMAIN done}]
     /\ UNCHANGED <<resLog, storeVars>>
     /\ IF done = <<>> \/ done[Len(done)] # "handler"
        THEN /\ reply' = [reply EXCEPT ![r] = LoginRedirect]
             /\ pc' = [pc EXCEPT ![r] = "done"]
             /\ UNCHANGED <<gets, held, outcome>>
        ELSE IF route # "GET /api/weather"
        THEN /\ reply' = [reply EXCEPT ![r] = Reply(200, "", "", NoError.message, Undefined)]
             /\ pc' = [pc EXCEPT ![r] = "done"]
             /\ UNCHANGED <<gets, held, outcome>>
        ELSE IF ~w.started
        THEN /\ reply' = [reply EXCEPT ![r] = w.reply]
             /\ pc' = [pc EXCEPT ![r] = "done"]
             /\ UNCHANGED <<gets, held, outcome>>
        ELSE Advance(r, w.step)

\* A client request arrives while no other is in flight.
Request(r) ==
  /\ \A q \in Reqs : pc[q] = "idle"
  /\ \E route \in Routes, user \in Users \cup {NoUser} :
       \E lat \in (IF route = "GET /api/weather" THEN LatValues ELSE {Undefined}),
          lon \in (IF route = "GET /api/weather" THEN LonValues ELSE {Undefined}) :
         Dispatch(r, route, user, [lat |-> lat, lon |-> lon])

\* The upstream answers the GET r awaits with a redirect that makeRequest
\* follows: the promise resolves with the promise of makeRequest(location).
Redirect(r) ==
  /\ pc[r] \in Stages
  /\ Hops(r) < MaxHops
  /\ \E res \in Responses(pc[r]) :
       LET m == makeRequest(res.location)
       IN /\ IsRedirect(res)
          /\ resLog' = [resLog EXCEPT ![r] =
               Append(@, [stage |-> pc[r], statusCode |-> res.statusCode,
                          location |-> res.location, read |-> FALSE, bodyLen |-> 0,
                          valid |-> FALSE, json |-> Undefined])]
          /\ IF m.issue
             THEN /\ gets' = [gets EXCEPT ![r] = Append(@, [stage |-> pc[r], get |-> m.get])]
                  /\ UNCHANGED <<pc, held, outcome, reply>>
             ELSE Settle(r, Rejected(m.error))
  /\ UNCHANGED <<req, ran, fx, storeVars>>

\* The upstream answers with any other response: the body is read to its end
\* and the 'end' handler settles the promise.
RespondWith(r, responses) ==
  /\ pc[r] \in Stages
  /\ \E res \in responses :
       /\ ~IsRedirect(res)
       /\ resLog' = [resLog EXCEPT ![r] =
            Append(@, [stage |-> pc[r], statusCode |-> res.statusCode,
                       location |-> IF res.statusCode = 200 THEN Undefined ELSE res.location,
                       read |-> TRUE,
                       bodyLen |-> IF res.statusCode = 200 THEN 0 ELSE Len(res.body.text),
                       valid |-> res.statusCode = 200 /\ res.body.valid,
                       json |-> IF res.statusCode = 200 THEN res.body.json ELSE Undefined])]
       /\ Settle(r, onEnd(res))
  /\ UNCHANGED <<req, ran, fx, storeVars>>

Respond(r) == RespondWith(r, Responses(pc[r]))

\* req.on('error'): the transport fails.
TransportFail(r) ==
  /\ pc[r] \in Stages
  /\ Settle(r, Rejected(Error(TransportError)))
  /\ UNCHANGED <<req, ran, fx, resLog, storeVars>>

Next ==
  \E r \in Reqs : Request(r) \/ Redirect(r) \/ Respond(r) \/ TransportFail(r)

Spec == Init /\ [][Next]_vars

\* Inputs of a direct call of the fetch primitive.
UrlInputs ==
  {Undefined, Null, Num(0), Str(<<>>), Str(<<" ">>), Str(<<" ", " ">>),
   Str(<<"/", "points">>), Str(<<"points">>), Str(<<" ", "/", "points", " ">>),
   Str(<<"/", "/", "points">>),
   Str(<<"https://", "api.weather.gov", "/", "points">>),
   Str(<<"http://", "api.weather.gov">>), Str(<<"https://">>)}

\* makeRequest(urlString) called on its own.
DirectCall(r) ==
  /\ \A q \in Reqs : pc[q] = "idle"
  /\ \E urlString \in UrlInputs :
       LET m == makeRequest(urlString)
       IN /\ req' = [req EXCEPT ![r] = [NoRequest EXCEPT !.route = "makeRequest",
                                                          !.url = urlString]]
          /\ IF m.issue
             THEN /\ pc' = [pc EXCEPT ![r] = "direct"]
                  /\ gets' = [gets EXCEPT ![r] = Append(@, [stage |-> "direct", get |-> m.get])]
                  /\ UNCHANGED outcome
             ELSE /\ pc' = [pc EXCEPT ![r] = "done"]
                  /\ outcome' = [outcome EXCEPT ![r] = Settled(Rejected(m.error))]
                  /\ UNCHANGED gets
  /\ UNCHANGED <<ran, fx, resLog, held, reply, storeVars>>

NextFetch ==
  \E r \in Reqs : DirectCall(r) \/ Redirect(r) \/ Respond(r) \/ TransportFail(r)

SpecFetch == Init /\ [][NextFetch]_vars

\* ------------------------------------------------- concurrent resolutions
\* Requests for /api/weather that are in flight together: each await of a
\* resolution is a point where the event loop may run any other.
ConcQueries ==
  {[lat |-> Str(<<lat>>), lon |-> Str(<<"-105.2633">>)] : lat \in {"40.0066", "95"}}

ConcValues(stage) ==
  CASE stage = "points" ->
         {Obj([properties |-> Obj([forecast |-> Str(ForecastUrl),
                                   forecastHourly |-> Str(HourlyUrl),
                                   relativeLocation |-> l])]) : l \in {Undefined, Boulder}}
    [] stage = "forecast" ->
         {Obj([properties |-> Obj([periods |-> Arr(<<Period(1), Period(2)>>), units |-> Units])]),
          Obj([properties |-> Obj([periods |-> Arr(<<>>), units |-> Undefined])])}
    [] stage = "hourly" ->
         {Obj([properties |-> Obj([periods |-> p])]) :
            p \in {Undefined, Arr(<<Period(3), Period(4)>>)}}
    [] OTHER -> {}

ConcResponses(stage) ==
  {[statusCode |-> 200, location |-> Undefined, body |-> JsonBody(v)] : v \in ConcValues(stage)}
    \cup {[statusCode |-> 500, location |-> Undefined, body |-> TextBody(1)]}

\* A signed-in client request arrives, whatever else is in flight.
RequestConc(r) ==
  \E query \in ConcQueries : Dispatch(r, "GET /api/weather", 1, query)

RespondConc(r) == RespondWith(r, ConcResponses(pc[r]))

NextConc ==
  \E r \in Reqs : RequestConc(r) \/ RespondConc(r) \/ TransportFail(r)

SpecConc == Init /\ [][NextConc]_vars

\* ----------------------------------------------------------------- accounts
\* Requests on the account, post and saved-location routes are served one at a
\* time, each handler from its first statement to its answer. A statement on
\* the database may fail at any time: dbFail is the number of the handler's
\* statement that does, 0 for none. A call on the file system may fail too
\* (fsOk).

\* bcrypt.hash(password, 10): a text from which compare recognises the
\* password.
Hash(password) == <<"$2a$10$">> \o password
\* bcrypt.compare(password, hash)
Compare(password, hash) == hash = Hash(password)

\* SELECT * FROM users WHERE username = $1
UsersNamed(username) == SelectSeq(users, LAMBDA row : row.username = username)

\* res.status(..).redirect(path): redirect() sets the status itself, to 302,
\* whatever status() set before.
redirect(path) == Answer(302, path, "")

\* What a handler does to the state and answers.
Outcome(u, sess, answer) == [users |-> u, session |-> sess, answer |-> answer]

\* POST /register. The async handler's test reads username.trim() and
\* password.trim(): on a value that is not a string this throws outside any
\* try, and the handler sends no answer.
register(body, dbOk) ==
  IF ~Truthy(body.username) \/ ~Truthy(body.password)
  THEN Outcome(users, session, Answer(400, "", "Invalid input"))
  ELSE IF body.username.t # "string" THEN Outcome(users, session, NoAnswer)
  ELSE IF Trim(body.username.s) = <<>>
  THEN Outcome(users, session, Answer(400, "", "Invalid input"))
  ELSE IF body.password.t # "string" THEN Outcome(users, session, NoAnswer)
  ELSE IF Trim(body.password.s) = <<>>
  THEN Outcome(users, session, Answer(400, "", "Invalid input"))
  ELSE IF ~dbOk \/ UsersNamed(body.username.s) # <<>>
  THEN Outcome(users, session, redirect("/register"))
  ELSE Outcome(Append(users, [id |-> Len(users) + 1, username |-> body.username.s,
                              password |-> Hash(body.password.s)]),
               session, redirect("/login"))

\* Mutant of login: the session is given the user found, whatever
\* bcrypt.compare says.
loginNoCompare(s, body, dbOk) ==
  LET rows == IF body.username.t = "string" THEN UsersNamed(body.username.s) ELSE <<>>
  IN IF ~dbOk \/ Len(rows) # 1 THEN Outcome(users, session, redirect("/register"))
     ELSE IF body.password.t # "string" THEN Outcome(users, session, redirect("/register"))
     ELSE Outcome(users, [session EXCEPT ![s] = rows[1].id], redirect("/home"))

\* POST /login, for browser session s. db.one rejects unless exactly one row
\* matches; bcrypt.compare rejects a password that is not a string.
login(s, body, dbOk) ==
  LET rows == IF body.username.t = "string" THEN UsersNamed(body.username.s) ELSE <<>>
  IN IF ~dbOk \/ Len(rows) # 1 THEN Outcome(users, session, redirect("/register"))
     ELSE IF body.password.t # "string" THEN Outcome(users, session, redirect("/register"))
     ELSE IF Compare(body.password.s, rows[1].password)
     THEN Outcome(users, [session EXCEPT ![s] = rows[1].id], redirect("/home"))
     ELSE Outcome(users, session, Answer(401, "", "Invalid username or password."))

\* GET /logout, for browser session s.
logout(s) ==
  Outcome(users, [session EXCEPT ![s] = NoUser], Answer(200, "", "Logged out Successfully"))

\* Request bodies a client sends.
UsernameInputs ==
  {Undefined, Null, Str(<<>>), Str(<<" ">>), Num(7), Str(<<"alice">>), Str(<<"bob">>)}
PasswordInputs == {Undefined, Null, Str(<<>>), Str(<<" ", " ">>), Str(<<"pw">>)}
LoginPasswords == {Undefined, Str(<<"pw">>), Str(<<"bad">>)}

Exchange(route, s, body, dbFail, fsOk, answer) ==
  [tick |-> ~last.tick, route |-> route, session |-> s, body |-> body,
   dbFail |-> dbFail, fsOk |-> fsOk, answer |-> answer]

Account(route, s, body, dbOk, out) ==
  /\ users' = out.users
  /\ session' = out.session
  /\ last' = Exchange(route, s, body, IF dbOk THEN 0 ELSE 1, TRUE, out.answer)
  /\ UNCHANGED <<posts, serial, files, uploaded, saved>>
  /\ UNCHANGED weatherVars

Register ==
  \E username \in UsernameInputs, password \in PasswordInputs, dbOk \in BOOLEAN :
    LET body == [NoBody EXCEPT !.username = username, !.password = password]
    IN Account("POST /register", 0, body, dbOk, register(body, dbOk))

Login(s) ==
  \E username \in UsernameInputs, password \in LoginPasswords, dbOk \in BOOLEAN :
    LET body == [NoBody EXCEPT !.username = username, !.password = password]
    IN Account("POST /login", s, body, dbOk, login(s, body, dbOk))

Logout(s) == Account("GET /logout", s, NoBody, TRUE, logout(s))

NextAccounts == Register \/ \E s \in Sessions : Login(s) \/ Logout(s)

SpecAccounts == Init /\ [][NextAccounts]_vars

\* -------------------------------------------------------------------- posts
\* Most posts ever inserted, and most files ever uploaded.
MaxPosts == 1
\* image_filename of a post without image; the k-th file multer stores is
\* named k (the names carry the time and six random bytes).
NoFile == 0
PostIds == 1..(MaxPosts + 1)

\* req.session.user of the request: of a request without session cookie, none.
SessionUser(s) == IF s \in Sessions THEN session[s] ELSE NoUser

\* Two registered users, each signed in from a browser session of their own.
TwoUsers ==
  << [id |-> 1, username |-> <<"alice">>, password |-> Hash(<<"pw">>)],
     [id |-> 2, username |-> <<"bob">>, password |-> Hash(<<"pw">>)] >>
InitSignedIn ==
  /\ InitWeather
  /\ users = TwoUsers
  /\ session = [s \in Sessions |-> IF s <= Len(TwoUsers) THEN TwoUsers[s].id ELSE NoUser]
  /\ posts = {} /\ serial = 0 /\ files = {} /\ uploaded = 0
  /\ saved = <<>>
  /\ last = NoExchange

\* What a post handler does to the tables and the uploads directory, and
\* answers.
PostOutcome(p, n, f, u, answer) ==
  [posts |-> p, serial |-> n, files |-> f, uploaded |-> u, answer |-> answer]

\* POST /api/posts: auth, then multer's upload.single('image'), then the
\* handler. image: "none", "image", or "other" (a file the filter refuses).
createPost(s, body, dbFail, fsOk) ==
  LET stored == body.image = "image"
      name == IF stored THEN uploaded + 1 ELSE NoFile
      kept == IF stored THEN files \cup {name} ELSE files
      count == IF stored THEN uploaded + 1 ELSE uploaded
      cleaned == IF stored /\ fsOk THEN files ELSE kept
      row == [id |-> serial + 1, user_id |-> SessionUser(s),
              content |-> Or(body.content, Null), image_filename |-> name]
  IN IF ~auth(SessionUser(s))
     THEN PostOutcome(posts, serial, files, uploaded, redirect("/login"))
     ELSE IF body.image = "other"
     THEN PostOutcome(posts, serial, files, uploaded,
                      Answer(400, "", "Only image files are allowed! Supported formats: ..."))
     ELSE IF ~Truthy(body.content) /\ ~stored
     THEN PostOutcome(posts, serial, kept, count,
                      Answer(400, "", "Post must have either content or an image"))
     ELSE IF dbFail = 1
     THEN PostOutcome(posts, serial, cleaned, count, Answer(500, "", "Failed to create post"))
     ELSE IF dbFail = 2
     THEN PostOutcome(posts \cup {row}, serial + 1, cleaned, count,
                      Answer(500, "", "Failed to create post"))
     ELSE PostOutcome(posts \cup {row}, serial + 1, kept, count, Answer(201, "", ""))

\* SELECT * FROM posts WHERE id = $1
PostsWithId(id) == {p \in posts : p.id = id}

\* Mutant of deletePost: the owner is not compared with the session's user.
deletePostAnyOwner(s, id, dbFail, fsOk) ==
  LET found == PostsWithId(id)
      post == CHOOSE p \in found : TRUE
      unlinked == IF post.image_filename # NoFile /\ fsOk
                  THEN files \ {post.image_filename} ELSE files
  IN IF ~auth(SessionUser(s))
     THEN PostOutcome(posts, serial, files, uploaded, redirect("/login"))
     ELSE IF dbFail = 1
     THEN PostOutcome(posts, serial, files, uploaded, Answer(500, "", "Failed to delete post"))
     ELSE IF found = {}
     THEN PostOutcome(posts, serial, files, uploaded, Answer(404, "", "Post not found"))
     ELSE IF dbFail = 2
     THEN PostOutcome(posts, serial, unlinked, uploaded,
                      Answer(500, "", "Failed to delete post"))
     ELSE PostOutcome(posts \ {post}, serial, unlinked, uploaded,
                      Answer(200, "", "Post deleted successfully"))

\* Mutant of deletePost: a failure to delete the image file is not caught
\* apart, and ends the handler in its catch block.
deletePostFileMustGo(s, id, dbFail, fsOk) ==
  LET found == PostsWithId(id)
      post == CHOOSE p \in found : TRUE
      unlinked == IF post.image_filename # NoFile /\ fsOk
                  THEN files \ {post.image_filename} ELSE files
  IN IF ~auth(SessionUser(s))
     THEN PostOutcome(posts, serial, files, uploaded, redirect("/login"))
     ELSE IF dbFail = 1
     THEN PostOutcome(posts, serial, files, uploaded, Answer(500, "", "Failed to delete post"))
     ELSE IF found = {}
     THEN PostOutcome(posts, serial, files, uploaded, Answer(404, "", "Post not found"))
     ELSE IF post.user_id # SessionUser(s)
     THEN PostOutcome(posts, serial, files, uploaded,
                      Answer(403, "", "You can only delete your own posts"))
     ELSE IF (post.image_filename # NoFile /\ ~fsOk) \/ dbFail = 2
     THEN PostOutcome(posts, serial, unlinked, uploaded,
                      Answer(500, "", "Failed to delete post"))
     ELSE PostOutcome(posts \ {post}, serial, unlinked, uploaded,
                      Answer(200, "", "Post deleted successfully"))

\* DELETE /api/posts/:id: auth, then the handler. The image file is unlinked
\* in a try of its own, before the row is deleted.
deletePost(s, id, dbFail, fsOk) ==
  LET found == PostsWithId(id)
      post == CHOOSE p \in found : TRUE
      unlinked == IF post.image_filename # NoFile /\ fsOk
                  THEN files \ {post.image_filename} ELSE files
  IN IF ~auth(SessionUser(s))
     THEN PostOutcome(posts, serial, files, uploaded, redirect("/login"))
     ELSE IF dbFail = 1
     THEN PostOutcome(posts, serial, files, uploaded, Answer(500, "", "Failed to delete post"))
     ELSE IF found = {}
     THEN PostOutcome(posts, serial, files, uploaded, Answer(404, "", "Post not found"))
     ELSE IF post.user_id # SessionUser(s)
     THEN PostOutcome(posts, serial, files, uploaded,
                      Answer(403, "", "You can only delete your own posts"))
     ELSE IF dbFail = 2
     THEN PostOutcome(posts, serial, unlinked, uploaded,
                      Answer(500, "", "Failed to delete post"))
     ELSE PostOutcome(posts \ {post}, serial, unlinked, uploaded,
                      Answer(200, "", "Post deleted successfully"))

Post(route, s, body, dbFail, fsOk, out) ==
  /\ posts' = out.posts
  /\ serial' = out.serial
  /\ files' = out.files
  /\ uploaded' = out.uploaded
  /\ last' = Exchange(route, s, body, dbFail, fsOk, out.answer)
  /\ UNCHANGED <<users, session, saved>>
  /\ UNCHANGED weatherVars

\* A client, with or without a session cookie.
Clients == Sessions \cup {0}

CreatePost(s) ==
  /\ serial < MaxPosts /\ uploaded < MaxPosts
  /\ \E content \in {Undefined, Str(<<"hi">>)}, image \in {"none", "image", "other"},
        dbFail \in 0..2, fsOk \in BOOLEAN :
       LET body == [NoBody EXCEPT !.content = content, !.image = image]
       IN Post("POST /api/posts", s, body, dbFail, fsOk, createPost(s, body, dbFail, fsOk))

DeletePost(s) ==
  \E id \in PostIds, dbFail \in 0..2, fsOk \in BOOLEAN :
    Post("DELETE /api/posts/:id", s, [NoBody EXCEPT !.id = id], dbFail, fsOk,
         deletePost(s, id, dbFail, fsOk))

NextPosts == \E s \in Clients : CreatePost(s) \/ DeletePost(s)

SpecPosts == InitSignedIn /\ [][NextPosts]_vars

\* ---------------------------------------------------------- saved locations
\* The table has the constraint UNIQUE(user_id, location_text) that
\* ensureSchema and create.sql add.

\* What a saved-location handler does to the table, and answers.
SavedOutcome(rows, answer) == [saved |-> rows, answer |-> answer]

\* The rows of a user with a text.
Matching(user, text) ==
  SelectSeq(saved, LAMBDA row : row.user_id = user /\ row.location_text = text)

\* Mutant of saveLocation: the text is stored as it was sent.
saveLocationNoTrim(s, body, dbOk) ==
  LET text == body.location_text
      row == [user_id |-> SessionUser(s), location_text |-> text.s]
  IN IF ~auth(SessionUser(s)) THEN SavedOutcome(saved, redirect("/login"))
     ELSE IF ~Truthy(text) THEN SavedOutcome(saved, Answer(400, "", "Location text is required"))
     ELSE IF text.t # "string" THEN SavedOutcome(saved, NoAnswer)
     ELSE IF Trim(text.s) = <<>>
     THEN SavedOutcome(saved, Answer(400, "", "Location text is required"))
     ELSE IF ~dbOk THEN SavedOutcome(saved, Answer(500, "", "Failed to save location"))
     ELSE IF Matching(row.user_id, row.location_text) # <<>>
     THEN SavedOutcome(saved, Answer(200, "", "Location saved"))
     ELSE SavedOutcome(Append(saved, row), Answer(200, "", "Location saved"))

\* POST /api/saved-locations: INSERT ... ON CONFLICT (user_id, location_text)
\* DO NOTHING, of the trimmed text. location_text.trim() of a value that is
\* not a string throws outside the try.
saveLocation(s, body, dbOk) ==
  LET text == body.location_text
      row == [user_id |-> SessionUser(s), location_text |-> Trim(text.s)]
  IN IF ~auth(SessionUser(s)) THEN SavedOutcome(saved, redirect("/login"))
     ELSE IF ~Truthy(text) THEN SavedOutcome(saved, Answer(400, "", "Location text is required"))
     ELSE IF text.t # "string" THEN SavedOutcome(saved, NoAnswer)
     ELSE IF Trim(text.s) = <<>>
     THEN SavedOutcome(saved, Answer(400, "", "Location text is required"))
     ELSE IF ~dbOk THEN SavedOutcome(saved, Answer(500, "", "Failed to save location"))
     ELSE IF Matching(row.user_id, row.location_text) # <<>>
     THEN SavedOutcome(saved, Answer(200, "", "Location saved"))
     ELSE SavedOutcome(Append(saved, row), Answer(200, "", "Location saved"))

\* DELETE /api/saved-locations: DELETE ... WHERE user_id = $1 AND
\* location_text = $2, of the trimmed text; 404 when no row went.
deleteLocation(s, body, dbOk) ==
  LET text == body.location_text
      user == SessionUser(s)
  IN IF ~auth(user) THEN SavedOutcome(saved, redirect("/login"))
     ELSE IF ~Truthy(text) THEN SavedOutcome(saved, Answer(400, "", "Location text is required"))
     ELSE IF text.t # "string" THEN SavedOutcome(saved, NoAnswer)
     ELSE IF Trim(text.s) = <<>>
     THEN SavedOutcome(saved, Answer(400, "", "Location text is required"))
     ELSE IF ~dbOk THEN SavedOutcome(saved, Answer(500, "", "Failed to delete location"))
     ELSE IF Matching(user, Trim(text.s)) = <<>>
     THEN SavedOutcome(saved, Answer(404, "", "Location not found"))
     ELSE SavedOutcome(
            SelectSeq(saved, LAMBDA row :
                        ~(row.user_id = user /\ row.location_text = Trim(text.s))),
            Answer(200, "", "Location deleted"))

LocationInputs ==
  {Undefined, Str(<<>>), Str(<<" ">>), Num(7), Str(<<"Boulder">>),
   Str(<<" ", "Boulder", " ">>), Str(<<"Denver">>)}

Saved(route, s, body, dbOk, out) ==
  /\ saved' = out.saved
  /\ last' = Exchange(route, s, body, IF dbOk THEN 0 ELSE 1, TRUE, out.answer)
  /\ UNCHANGED <<users, session, posts, serial, files, uploaded>>
  /\ UNCHANGED weatherVars

SaveLocation(s) ==
  \E text \in LocationInputs, dbOk \in BOOLEAN :
    LET body == [NoBody EXCEPT !.location_text = text]
    IN Saved("POST /api/saved-locations", s, body, dbOk, saveLocation(s, body, dbOk))

DeleteLocation(s) ==
  \E text \in LocationInputs, dbOk \in BOOLEAN :
    LET body == [NoBody EXCEPT !.location_text = text]
    IN Saved("DELETE /api/saved-locations", s, body, dbOk, deleteLocation(s, body, dbOk))

NextSaved == \E s \in Clients : SaveLocation(s) \/ DeleteLocation(s)

SpecSaved == InitSignedIn /\ [][NextSaved]_vars

\* =================================================================== claims
RanSet(r) == {ran[r][i] : i \in DOMAIN ran[r]}
IsWeather(r) == req[r].route = "GET /api/weather"
Failed(r) == outcome[r].settled /\ ~outcome[r].ok
Returned(r) == outcome[r].settled /\ outcome[r].ok
StagesOf(r) == {gets[r][i].stage : i \in DOMAIN gets[r]}
PointsProps(r) == Get(held[r].pointsData, "properties")
\* The i-th response of r was a 200 whose body decoded, for the stage given.
Fetched(r, stage, url) ==
  \E i \in DOMAIN resLog[r] :
    /\ resLog[r][i].stage = stage /\ resLog[r][i].statusCode = 200 /\ resLog[r][i].read
    /\ \E j \in DOMAIN gets[r] :
         gets[r][j] = [stage |-> stage, get |-> RequestOptions(FullUrl(Trim(url)))]
\* A string that is a URL once trimmed.
IsUrlText(v) == v.t = "string" /\ Trim(v.s) # <<>>

\* C1: a request to a guarded route whose session has no user is answered by
\* the redirect to /login, page and API routes alike; neither the upload nor
\* the handler runs, no GET is issued, nothing is written to the database or
\* to disk. A handler of a guarded route runs only with a session user.
C1_AuthGuard ==
  \A r \in Reqs :
    req[r].route \in GuardedRoutes =>
      /\ ("handler" \in RanSet(r) \/ "upload" \in RanSet(r)) => req[r].user # NoUser
      /\ req[r].user = NoUser =>
           /\ reply[r] = LoginRedirect
           /\ RanSet(r) = {"auth"}
           /\ gets[r] = <<>>
           /\ fx[r] \cap {"dbWrite", "fileWrite"} = {}
           /\ pc[r] = "done"

\* C1 witness: an API route that uploads, asked without a session user.
C1_Witness ==
  \E r \in Reqs :
    /\ req[r].route = "POST /api/posts" /\ req[r].user = NoUser
    /\ reply[r].status = 302 /\ reply[r].redirect = "/login"

\* C2: getWeatherData returns a snapshot only if the points response had
\* properties whose forecast and forecastHourly are strings that are not empty
\* once trimmed, and both were fetched with a 200 that decoded; a points
\* response where either is absent, empty or blank never yields a snapshot.
C2_FailClosed ==
  \A r \in Reqs :
    IsWeather(r) =>
      /\ Returned(r) =>
           /\ PointsProps(r).t = "object"
           /\ IsUrlText(Get(PointsProps(r), "forecast"))
           /\ IsUrlText(Get(PointsProps(r), "forecastHourly"))
           /\ Fetched(r, "forecast", Get(PointsProps(r), "forecast").s)
           /\ Fetched(r, "hourly", Get(PointsProps(r), "forecastHourly").s)
      /\ ( /\ held[r].pointsData.t # "unset"
           /\ \/ ~IsUrlText(Get(PointsProps(r), "forecast"))
              \/ ~IsUrlText(Get(PointsProps(r), "forecastHourly")) )
         => /\ ~Returned(r)
            /\ reply[r].data = Undefined
            /\ pc[r] = "done" => Failed(r)

\* C2 witness: a snapshot was returned.
C2_Witness ==
  \E r \in Reqs : IsWeather(r) /\ Returned(r) /\ reply[r].status = 200

\* C3: a points response that is missing or has no properties fails with
\* 'Invalid response from points API', and no forecast or hourly GET is issued.
C3_InvalidShape ==
  \A r \in Reqs :
    ( /\ IsWeather(r)
      /\ held[r].pointsData.t # "unset"
      /\ ~Truthy(held[r].pointsData) \/ ~Truthy(PointsProps(r)) )
    => /\ Failed(r)
       /\ outcome[r].error = Error(InvalidPoints)
       /\ StagesOf(r) = {"points"}

\* C3 witness: a points response that is an object without properties.
C3_Witness ==
  \E r \in Reqs :
    IsWeather(r) /\ held[r].pointsData = EmptyObj /\ pc[r] = "done"

\* C4: with properties but no forecast URL (absent or empty) the failure is
\* 'Unable to get forecast URL from points API'; with a forecast value but no
\* hourly URL (absent or empty) it is 'Unable to get hourly forecast URL from
\* points API'; the two differ from each other and from the shape error, and
\* no forecast or hourly GET is issued.
C4_MissingUrls ==
  /\ Cardinality({InvalidPoints, NoForecastUrl, NoHourlyUrl}) = 3
  /\ \A r \in Reqs :
       (IsWeather(r) /\ Truthy(held[r].pointsData) /\ Truthy(PointsProps(r))) =>
         /\ ~Truthy(Get(PointsProps(r), "forecast")) =>
              /\ Failed(r)
              /\ outcome[r].error = Error(NoForecastUrl)
              /\ StagesOf(r) = {"points"}
         /\ ( /\ Truthy(Get(PointsProps(r), "forecast"))
              /\ ~Truthy(Get(PointsProps(r), "forecastHourly")) ) =>
              /\ Failed(r)
              /\ outcome[r].error = Error(NoHourlyUrl)
              /\ StagesOf(r) = {"points"}

\* C4 witness: a forecast URL and no hourly URL.
C4_Witness ==
  \E r \in Reqs :
    /\ IsWeather(r) /\ pc[r] = "done"
    /\ Get(PointsProps(r), "forecast") = Str(ForecastUrl)
    /\ Get(PointsProps(r), "forecastHourly") = Undefined

LastRes(r) == resLog[r][Len(resLog[r])]
\* The first n characters of a text body.
Prefix(n) == [k \in 1..n |-> k]
\* The last GET of r was answered, and the answer's body was read to its end.
AnsweredRead(r) ==
  resLog[r] # <<>> /\ Len(resLog[r]) = Len(gets[r]) /\ LastRes(r).read

\* C5: when a stage fails, getWeatherData ends with the originating error (the
\* HTTP error of the status received, the parse error, the transport error,
\* the error of a redirect target makeRequest refuses) and with no snapshot,
\* and the route answers 500 with exactly that error's message and no data.
C5_FailurePropagation ==
  \A r \in Reqs :
    IsWeather(r) =>
      /\ Failed(r) =>
           /\ reply[r] = Reply(500, "", "Failed to fetch weather data",
                               outcome[r].error.message, Undefined)
           /\ outcome[r].value = Undefined
      /\ (AnsweredRead(r) /\ LastRes(r).statusCode # 200) =>
           /\ Failed(r)
           /\ outcome[r].error.message =
                Message(HttpError, LastRes(r).statusCode,
                        Prefix(Min(LastRes(r).bodyLen, ExcerptLen)), <<>>)
      /\ (AnsweredRead(r) /\ LastRes(r).statusCode = 200
            /\ held[r][CASE LastRes(r).stage = "points" -> "pointsData"
                         [] LastRes(r).stage = "forecast" -> "forecastData"
                         [] OTHER -> "hourlyData"].t = "unset") =>
           /\ Failed(r)
           /\ outcome[r].error = Error(ParseError)
      /\ (pc[r] = "done" /\ Len(resLog[r]) < Len(gets[r])) =>
           /\ Failed(r)
           /\ outcome[r].error = Error(TransportError)
      /\ (resLog[r] # <<>> /\ Len(resLog[r]) = Len(gets[r]) /\ ~LastRes(r).read) =>
           /\ Failed(r)
           /\ outcome[r].error = makeRequest(LastRes(r).location).error

\* C5 witness: the hourly request is answered 404 and the route answers 500.
C5_Witness ==
  \E r \in Reqs :
    /\ IsWeather(r) /\ AnsweredRead(r)
    /\ LastRes(r).stage = "hourly" /\ LastRes(r).statusCode = 404
    /\ reply[r].status = 500

DailyPeriods(r) == Get(Get(held[r].forecastData, "properties"), "periods")
HourlyPeriods(r) == Get(Get(held[r].hourlyData, "properties"), "periods")
\* All three stages decoded, with period arrays, the hourly one not empty.
WellFormedChain(r) ==
  /\ IsWeather(r)
  /\ held[r].hourlyData.t # "unset"
  /\ DailyPeriods(r).t = "array"
  /\ HourlyPeriods(r).t = "array" /\ HourlyPeriods(r).a # <<>>

\* C6: for a well-formed chain the snapshot's current is the first hourly
\* period and its forecast is the daily period sequence, and it is the body of
\* the 200 reply.
C6_SnapshotFields ==
  \A r \in Reqs :
    WellFormedChain(r) =>
      /\ Returned(r)
      /\ Get(outcome[r].value, "current") = HourlyPeriods(r).a[1]
      /\ Get(outcome[r].value, "forecast") = Arr(DailyPeriods(r).a)
      /\ reply[r] = Reply(200, "", "", NoError.message, outcome[r].value)

\* C6 witness: a snapshot of two hourly and two daily periods.
C6_Witness ==
  \E r \in Reqs :
    /\ WellFormedChain(r) /\ pc[r] = "done"
    /\ Len(HourlyPeriods(r).a) = 2 /\ Len(DailyPeriods(r).a) = 2

\* C7: once the points response is valid and the forecast and hourly requests
\* are answered with a 200 that decodes, a snapshot is returned whatever the
\* two payloads are, with the defaults for what they lack.
C7_AssembleWithDefaults ==
  \A r \in Reqs :
    (IsWeather(r) /\ held[r].hourlyData.t # "unset") =>
      /\ Returned(r)
      /\ ~Truthy(Get(PointsProps(r), "relativeLocation")) =>
           Get(outcome[r].value, "location") = UnknownLocation
      /\ ~Truthy(OptIndex0(OptGet(OptGet(held[r].hourlyData, "properties"), "periods"))) =>
           Get(outcome[r].value, "current") = Null
      /\ ~Truthy(OptGet(OptGet(held[r].forecastData, "properties"), "periods")) =>
           Get(outcome[r].value, "forecast") = Arr(<<>>)
      /\ ~Truthy(OptGet(OptGet(held[r].forecastData, "properties"), "units")) =>
           Get(outcome[r].value, "units") = EmptyObj

\* C8: a response with a status in 300..399 and a Location header is not read;
\* makeRequest(location) is called: the next GET of the same call goes to the
\* Location target, or, when makeRequest refuses the target, the call fails
\* with that error. However many redirects came before, the call settles with
\* exactly what the last response settles: a 200 resolves with its decoded
\* body (or fails to parse), any other status is the HTTP error.
C8_RedirectFollowed ==
  \A r \in Reqs :
    /\ \A i \in DOMAIN resLog[r] :
         LET e == resLog[r][i]
             m == makeRequest(e.location)
         IN /\ i <= Len(gets[r]) /\ gets[r][i].stage = e.stage
            /\ (e.statusCode >= 300 /\ e.statusCode < 400 /\ Truthy(e.location)) =>
                 /\ ~e.read
                 /\ IF m.issue
                    THEN /\ Len(gets[r]) > i
                         /\ gets[r][i + 1] = [stage |-> e.stage, get |-> m.get]
                    ELSE /\ Len(gets[r]) = i
                         /\ Failed(r) /\ outcome[r].error = m.error
            /\ ~e.read => (e.statusCode >= 300 /\ e.statusCode < 400 /\ Truthy(e.location))
    /\ (req[r].route = "makeRequest" /\ AnsweredRead(r)) =>
         outcome[r] =
           Settled(IF LastRes(r).statusCode # 200
                   THEN Rejected([message |->
                          Message(HttpError, LastRes(r).statusCode,
                                  Prefix(Min(LastRes(r).bodyLen, ExcerptLen)), <<>>)])
                   ELSE IF LastRes(r).valid THEN Resolved(LastRes(r).json)
                   ELSE Rejected(Error(ParseError)))

\* C8 witness: MaxHops redirects in a row, then a 200, and the call resolved.
C8_Witness ==
  \E r \in Reqs :
    /\ req[r].route = "makeRequest" /\ Returned(r)
    /\ Len(resLog[r]) = MaxHops + 1
    /\ \A i \in 1..MaxHops : ~resLog[r][i].read /\ resLog[r][i].statusCode = 301

\* C9: a response that is neither a 200 nor a followed redirect is the last of
\* its call, which fails with the HTTP error carrying the status and the first
\* 200 characters of the body (the whole body when shorter); it never resolves.
C9_HttpError ==
  \A r \in Reqs :
    \A i \in DOMAIN resLog[r] :
      LET e == resLog[r][i]
      IN (e.read /\ e.statusCode # 200) =>
           /\ i = Len(resLog[r]) /\ i = Len(gets[r])
           /\ Failed(r) /\ ~Returned(r)
           /\ outcome[r].error.message.text = HttpError
           /\ outcome[r].error.message.status = e.statusCode
           /\ Len(outcome[r].error.message.excerpt) <= 200
           /\ outcome[r].error.message.excerpt = Prefix(Min(e.bodyLen, 200))

\* C9 witness: a 404 with a body longer than the excerpt.
C9_Witness ==
  \E r \in Reqs :
    /\ AnsweredRead(r) /\ LastRes(r).statusCode = 404
    /\ LastRes(r).bodyLen > 200
    /\ Len(outcome[r].error.message.excerpt) = 200

IsBlankInput(v) == IsNullish(v) \/ (v.t = "string" /\ Trim(v.s) = <<>>)

\* C10: makeRequest of a missing, empty or all-whitespace input fails with
\* 'URL is required' or 'URL is empty after trimming' and issues no GET.
C10_InvalidInput ==
  \A r \in Reqs :
    (req[r].route = "makeRequest" /\ IsBlankInput(req[r].url)) =>
      /\ Failed(r)
      /\ outcome[r].error \in {Error(UrlRequired), Error(UrlEmpty)}
      /\ gets[r] = <<>> /\ resLog[r] = <<>>
      /\ pc[r] = "done"

\* C10 witness: an input of two spaces.
C10_Witness ==
  \E r \in Reqs :
    req[r].route = "makeRequest" /\ req[r].url = Str(<<" ", " ">>) /\ Failed(r)

\* The input without the one slash it may start with.
PathOf(t) == IF StartsWith(t, "/") THEN Tail(t) ELSE t

\* C11: a trimmed, non-empty input with no 'http://' or 'https://' prefix is
\* resolved to 'https://api.weather.gov', one '/', and the input less the one
\* slash it may start with, and the GET goes to that host and path; an input
\* with a scheme prefix is resolved to itself.
C11_UrlResolution ==
  \A r \in Reqs :
    (req[r].route = "makeRequest" /\ IsUrlText(req[r].url)) =>
      LET t == Trim(StringOf(req[r].url))
      IN IF HasScheme(t)
         THEN /\ FullUrl(t) = t
              /\ gets[r] # <<>> => gets[r][1].get = RequestOptions(t)
         ELSE /\ FullUrl(t) = <<"https://", "api.weather.gov", "/">> \o PathOf(t)
              /\ gets[r] # <<>>
              /\ gets[r][1].get = [hostname |-> "api.weather.gov",
                                   path |-> <<"/">> \o PathOf(t)]

\* C11 witness: ' /points ' and 'points' both went out as GET /points to
\* api.weather.gov.
C11_Witness ==
  \E r \in Reqs :
    /\ req[r].route = "makeRequest"
    /\ req[r].url \in {Str(<<" ", "/", "points", " ">>), Str(<<"points">>)}
    /\ gets[r] # <<>>
    /\ gets[r][1].get = [hostname |-> "api.weather.gov", path |-> <<"/", "points">>]

\* A query parameter that is absent or the empty string.
IsMissing(v) == v = Undefined \/ v = Str(<<>>)

\* C12: a GET /api/weather of a signed-in session whose lat or lon is missing
\* or empty is answered 400 with the JSON error envelope; getWeatherData is
\* not called and no GET goes out.
C12_MissingParameter ==
  \A r \in Reqs :
    (IsWeather(r) /\ req[r].user # NoUser
       /\ (IsMissing(req[r].query.lat) \/ IsMissing(req[r].query.lon))) =>
      /\ pc[r] = "done"
      /\ reply[r].status = 400
      /\ reply[r].error = "Latitude and longitude are required"
      /\ reply[r].data = Undefined
      /\ gets[r] = <<>> /\ resLog[r] = <<>>
      /\ ~outcome[r].settled /\ held[r] = NoData

\* C12 witness: lat given, lon empty, answered 400.
C12_Witness ==
  \E r \in Reqs :
    /\ IsWeather(r) /\ req[r].user # NoUser
    /\ req[r].query = [lat |-> Str(<<"40.0066">>), lon |-> Str(<<>>)]
    /\ reply[r].status = 400 /\ gets[r] = <<>>

\* The whole part of the absolute value of the numbers parseFloat yields here.
Magnitude(n) ==
  CASE n = "95" -> 95
    [] n = "200" -> 200
    [] n = "40.0066" -> 40
    [] n = "-105.2633" -> 105
    [] OTHER -> 0
\* parseFloat(v) is finite and at most `most` in absolute value.
InRange(v, most) == parseFloat(v) # "NaN" /\ Magnitude(parseFloat(v)) <= most

\* C13: a lat or lon that parses to NaN, or lies outside [-90, 90] for lat and
\* [-180, 180] for lon, never reaches getWeatherData: no GET to the points
\* endpoint is issued for it.
C13_CoordinateValidation ==
  \A r \in Reqs :
    (IsWeather(r) /\ req[r].user # NoUser
       /\ Truthy(req[r].query.lat) /\ Truthy(req[r].query.lon)
       /\ (~InRange(req[r].query.lat, 90) \/ ~InRange(req[r].query.lon, 180))) =>
      gets[r] = <<>> /\ held[r] = NoData

\* The place of a stage in the pipeline.
StageRank(stage) ==
  CASE stage = "points" -> 1 [] stage = "forecast" -> 2 [] stage = "hourly" -> 3
    [] OTHER -> 0
\* No GET of r was answered by a redirect.
NoRedirects(r) == \A i \in DOMAIN resLog[r] : resLog[r][i].read
\* The i-th answer of r was a 200 whose body decoded.
Decoded(r, i) ==
  resLog[r][i].read /\ resLog[r][i].statusCode = 200 /\ resLog[r][i].valid

\* C19: a weather resolution that succeeds without redirects has issued exactly
\* three GETs, for the grid point, the daily forecast and the hourly forecast
\* in that order. At every moment at most one GET of a resolution is
\* unanswered; a GET for the next stage follows an answer of the stage before
\* that was received and decoded; the stages never go back and, redirects
\* apart, no stage is requested twice; an answer that failed is followed by no
\* GET.
C19_Sequential ==
  \A r \in Reqs :
    IsWeather(r) =>
      /\ (Returned(r) /\ NoRedirects(r)) =>
            /\ [i \in DOMAIN gets[r] |-> gets[r][i].stage] = <<"points", "forecast", "hourly">>
            /\ Len(resLog[r]) = 3
            /\ \A i \in 1..3 : Decoded(r, i) /\ resLog[r][i].stage = gets[r][i].stage
      /\ Len(resLog[r]) <= Len(gets[r]) /\ Len(gets[r]) <= Len(resLog[r]) + 1
      /\ gets[r] # <<>> => gets[r][1].stage = "points"
      /\ \A i \in DOMAIN gets[r] :
           i < Len(gets[r]) =>
             /\ resLog[r][i].stage = gets[r][i].stage
             /\ \/ /\ ~resLog[r][i].read
                   /\ gets[r][i + 1].stage = gets[r][i].stage
                \/ /\ Decoded(r, i)
                   /\ StageRank(gets[r][i + 1].stage) = StageRank(gets[r][i].stage) + 1
      /\ \A i \in DOMAIN resLog[r] :
           (resLog[r][i].read /\ ~Decoded(r, i)) => (i = Len(gets[r]) /\ pc[r] = "done")
      /\ (pc[r] = "done" /\ gets[r] # <<>> /\ Len(resLog[r]) < Len(gets[r])) => Failed(r)

\* C19 witness: a resolution returned its snapshot after three GETs and no
\* redirect.
C19_Witness ==
  \E r \in Reqs :
    /\ IsWeather(r) /\ Returned(r) /\ NoRedirects(r)
    /\ Len(gets[r]) = 3 /\ reply[r].status = 200

\* What the 200 answer to r's own GET of a stage decoded to.
OwnJson(r, stage) ==
  LET I == {i \in DOMAIN resLog[r] : resLog[r][i].stage = stage /\ Decoded(r, i)}
  IN IF I = {} THEN Unset ELSE resLog[r][CHOOSE i \in I : TRUE].json
\* The GETs of a stage, over all requests.
GetsOf(stage) ==
  {<<r, i>> \in Reqs \X (1..3) : i \in DOMAIN gets[r] /\ gets[r][i].stage = stage}

\* C20: whatever the interleaving of the upstream responses of concurrent
\* weather requests, identical coordinates included, each request issues its
\* own grid-point GET for its own coordinates (as many grid-point GETs as
\* requests), requests the forecast URLs of its own grid-point answer, holds
\* only what its own GETs were answered with, and its snapshot and reply are
\* assembled from those answers alone.
C20_NoSharing ==
  /\ Cardinality(GetsOf("points")) = Cardinality({r \in Reqs : IsWeather(r)})
  /\ \A r \in Reqs :
       IsWeather(r) =>
         LET points == OwnJson(r, "points")
             forecast == OwnJson(r, "forecast")
             hourly == OwnJson(r, "hourly")
         IN /\ gets[r] # <<>>
            /\ gets[r][1] =
                 [stage |-> "points",
                  get |-> [hostname |-> "api.weather.gov",
                           path |-> <<"/", "points", "/", req[r].query.lat.s[1], ",",
                                      req[r].query.lon.s[1]>>]]
            /\ held[r] = [pointsData |-> points, forecastData |-> forecast,
                          hourlyData |-> hourly]
            /\ \A i \in DOMAIN gets[r] :
                 /\ gets[r][i].stage = "forecast" =>
                      gets[r][i].get =
                        RequestOptions(Trim(Get(Get(points, "properties"), "forecast").s))
                 /\ gets[r][i].stage = "hourly" =>
                      gets[r][i].get =
                        RequestOptions(Trim(Get(Get(points, "properties"), "forecastHourly").s))
            /\ Returned(r) =>
                 /\ Get(outcome[r].value, "location") =
                      Or(OptGet(Get(Get(points, "properties"), "relativeLocation"),
                                "properties"), UnknownLocation)
                 /\ Get(outcome[r].value, "current") =
                      Or(OptIndex0(OptGet(Get(hourly, "properties"), "periods")), Null)
                 /\ Get(outcome[r].value, "forecast") =
                      Or(OptGet(Get(forecast, "properties"), "periods"), Arr(<<>>))
                 /\ Get(outcome[r].value, "units") =
                      Or(OptGet(Get(forecast, "properties"), "units"), EmptyObj)
                 /\ reply[r] = Reply(200, "", "", NoError.message, outcome[r].value)

\* C20 witness: two requests for the same coordinates were in flight together
\* and were answered differently upstream; one has returned its snapshot with
\* the location it was given while the other, given none, still awaits its
\* hourly forecast.
C20_Witness ==
  \E r, q \in Reqs :
    /\ r # q /\ IsWeather(r) /\ IsWeather(q) /\ req[r].query = req[q].query
    /\ Returned(r) /\ Get(outcome[r].value, "location") = Get(Boulder, "properties")
    /\ pc[q] = "hourly"
    /\ Get(Get(held[q].pointsData, "properties"), "relativeLocation") = Undefined
    /\ Len(resLog[q]) = 2 /\ Len(resLog[r]) = 3
    /\ resLog[q][2].json # resLog[r][2].json

\* C14: a POST /register whose username or password is missing, null, empty or
\* all whitespace is answered 400 'Invalid input', and the users table is as
\* it was.
C14_InvalidRegistration ==
  [][(last'.tick # last.tick /\ last'.route = "POST /register"
        /\ (IsBlankInput(last'.body.username) \/ IsBlankInput(last'.body.password))) =>
       (last'.answer = Answer(400, "", "Invalid input") /\ users' = users)]_vars

\* C15: a POST /register with a non-empty username and a non-empty password
\* is answered with status 200.
C15_RegisterOk ==
  (last.route = "POST /register"
     /\ IsUrlText(last.body.username) /\ IsUrlText(last.body.password)) =>
    last.answer.status = 200

\* The step is the serving of a request on the route given.
Served(route) == last'.tick # last.tick /\ last'.route = route
\* The user of the request just served, and the posts it names.
Requester == SessionUser(last'.session)
Named == PostsWithId(last'.body.id)

\* C16: DELETE /api/posts/:id removes no row but the one named, and that only
\* when its user_id is the id of the session's user; no other request removes
\* a row. Unless the SELECT itself fails, a signed-in user's DELETE of another
\* user's post is answered 403 and of an id that names no post 404, and both
\* leave the posts table and the uploads directory as they were.
C16_OwnerDelete ==
  [][/\ \A p \in posts \ posts' :
          /\ Served("DELETE /api/posts/:id")
          /\ p \in Named /\ p.user_id = Requester /\ Requester # NoUser
     /\ (Served("DELETE /api/posts/:id") /\ Requester # NoUser /\ last'.dbFail # 1) =>
          /\ Named = {} =>
                (last'.answer.status = 404 /\ posts' = posts /\ files' = files)
          /\ (Named # {} /\ \A p \in Named : p.user_id # Requester) =>
                (last'.answer.status = 403 /\ posts' = posts /\ files' = files)]_vars

\* C16 witness: a DELETE of another user's post, which has an image, was
\* answered 403; the row and the file are there.
C16_Witness ==
  /\ last.route = "DELETE /api/posts/:id" /\ last.answer.status = 403
  /\ \E p \in posts :
       /\ p.id = last.body.id /\ p.user_id # SessionUser(last.session)
       /\ p.image_filename \in files

\* C17: when the owner deletes a post with an image and the deletion of the
\* file fails, then, the database working, the row is deleted all the same
\* and the answer is the success answer.
C17_BestEffortUnlink ==
  [][(/\ Served("DELETE /api/posts/:id") /\ last'.dbFail = 0 /\ ~last'.fsOk
      /\ \E p \in Named : p.user_id = Requester /\ p.image_filename # NoFile) =>
       /\ posts' = posts \ Named
       /\ files' = files
       /\ last'.answer = Answer(200, "", "Post deleted successfully")]_vars

\* C17 witness: a DELETE was answered with success although the file system
\* failed; the row is gone and its image file is left behind.
C17_Witness ==
  /\ last.route = "DELETE /api/posts/:id" /\ ~last.fsOk /\ last.answer.status = 200
  /\ PostsWithId(last.body.id) = {}
  /\ \E f \in files : \A p \in posts : p.image_filename # f

\* The saved rows of a user, in the table given.
ListOf(rows, user) == SelectSeq(rows, LAMBDA row : row.user_id = user)
\* The text the request just served names, trimmed.
NamedText == Trim(last'.body.location_text.s)

\* C18: after every POST and DELETE /api/saved-locations by any user there is
\* at most one saved row per user id and trimmed text; a POST of a text the
\* user has saved already leaves the user's list as it was and, the database
\* working, is answered with success; and no request changes the list of a
\* user other than the one who sent it.
C18_SavedUnique ==
  [][/\ \A i, j \in DOMAIN saved' :
          (saved'[i].user_id = saved'[j].user_id
             /\ Trim(saved'[i].location_text) = Trim(saved'[j].location_text)) => i = j
     /\ (/\ Served("POST /api/saved-locations") /\ Requester # NoUser
         /\ IsUrlText(last'.body.location_text)
         /\ \E i \in DOMAIN saved :
              saved[i].user_id = Requester /\ Trim(saved[i].location_text) = NamedText) =>
          /\ ListOf(saved', Requester) = ListOf(saved, Requester)
          /\ last'.dbFail = 0 => last'.answer = Answer(200, "", "Location saved")
     /\ \A k \in DOMAIN users :
          (users[k].id # Requester \/ last'.tick = last.tick) =>
            ListOf(saved', users[k].id) = ListOf(saved, users[k].id)]_vars

\* C18 witness: a user saved ' Boulder ' again after another user had saved a
\* location; the user's row, the first of the table, is still the only one.
C18_Witness ==
  /\ last.route = "POST /api/saved-locations"
  /\ last.body.location_text = Str(<<" ", "Boulder", " ">>)
  /\ last.answer = Answer(200, "", "Location saved")
  /\ Len(saved) = 2
  /\ saved[1] = [user_id |-> SessionUser(last.session), location_text |-> <<"Boulder">>]
  /\ saved[2].user_id # saved[1].user_id

\* The user rows whose stored hash the password of the request just served
\* matches, under the username it names.
Matched ==
  IF last'.body.username.t = "string" /\ last'.body.password.t = "string"
  THEN {k \in DOMAIN users :
          /\ users[k].username = last'.body.username.s
          /\ Compare(last'.body.password.s, users[k].password)}
  ELSE {}

\* C21: a session's principal is always a row of the users table. It is set
\* only by a POST /login of that session whose password matches the stored
\* hash of the user named, to that user, and a GET /logout of the session
\* clears it; a login with an unknown username or a wrong password leaves
\* every session as it was, and so does a registration.
C21_SessionLifecycle ==
  [][/\ \A s \in Sessions :
          session'[s] # NoUser => \E k \in DOMAIN users' : users'[k].id = session'[s]
     /\ \A s \in Sessions :
          (session'[s] # session[s] /\ session'[s] # NoUser) =>
             /\ Served("POST /login") /\ last'.session = s
             /\ \E k \in Matched : session'[s] = users[k].id
     /\ \A s \in Sessions :
          (session'[s] # session[s] /\ session'[s] = NoUser) =>
             (Served("GET /logout") /\ last'.session = s)
     /\ (Served("GET /logout") /\ last'.session \in Sessions) =>
          session'[last'.session] = NoUser
     /\ (Served("POST /login") /\ Matched = {}) => session' = session
     /\ Served("POST /register") => session' = session]_vars

\* C21 witness: one session is signed in as a registered user; the other has
\* just been refused with a wrong password for the same user and carries no
\* principal.
C21_Witness ==
  /\ last.route = "POST /login" /\ last.answer.status = 401
  /\ last.body.password = Str(<<"bad">>)
  /\ session[last.session] = NoUser
  /\ \E s \in Sessions, k \in DOMAIN users :
       /\ s # last.session /\ session[s] = users[k].id
       /\ Str(users[k].username) = last.body.username

\* C22: after every POST /api/posts and DELETE /api/posts/:id, a database
\* statement failing partway included, every post row with an image_filename
\* names a file of the uploads directory, and a request answered 400 or 500
\* leaves no new post row and no new file.
C22_PostImageConsistency ==
  [][/\ \A p \in posts' : p.image_filename # NoFile => p.image_filename \in files'
     /\ (last'.tick # last.tick /\ last'.answer.status \in {400, 500}) =>
          (posts' \subseteq posts /\ files' \subseteq files)]_vars

====
